---------------------------- MODULE Spec2Model ----------------------------
(***************************************************************************)
(* FuzzRun: the correction engine and the decision pipeline of main().     *)
(*                                                                         *)
(* A token (command name, argument, script or branch name) is a sequence   *)
(* of one-character strings, so that the edit distance is computed on the  *)
(* characters as the code computes it.  A captured output stream is a      *)
(* sequence of chunks; a chunk records which of the code's regular         *)
(* expressions its text matches and the token the expression captures.     *)
(***************************************************************************)
EXTENDS Integers, Sequences, FiniteSets, TLC

(* ------------------------------ bounds -------------------------------- *)

\* longest argument list (argv without the base) the model explores
MaxArgs == 2

\* longest token the distance function is applied to on its own
MaxTokenLen == 3

\* longest candidate pool findBestMatch is applied to on its own
MaxPool == 3

\* deepest directory below the filesystem root a manifest is searched from
MaxDepth == 2

\* longest profile content updateProfile is applied to on its own
MaxContent == 3

\* most processes of the tool that run one after the other on the same profiles
MaxProcesses == 2

(* ----------------------------- constants ------------------------------ *)

DEFAULT_PRIORITY_BASES ==
  {
    <<"g", "i", "t">>, <<"n", "p", "m">>, <<"y", "a", "r", "n">>, <<"p", "n", "p", "m">>,
    <<"n", "o", "d", "e">>, <<"p", "y", "t", "h", "o", "n">>,
    <<"p", "y", "t", "h", "o", "n", "3">>, <<"p", "i", "p">>, <<"p", "i", "p", "3">>,
    <<"d", "o", "c", "k", "e", "r">>, <<"k", "u", "b", "e", "c", "t", "l">>, <<"g", "h">>,
    <<"g", "o">>, <<"c", "a", "r", "g", "o">>, <<"d", "o", "t", "n", "e", "t">>,
    <<"j", "a", "v", "a">>, <<"m", "v", "n">>, <<"g", "r", "a", "d", "l", "e">>
  }

DANGEROUS_BASE ==
  { <<"r", "m">>, <<"m", "v">>, <<"d", "d">>, <<"s", "h", "u", "t", "d", "o", "w", "n">>,
    <<"r", "e", "b", "o", "o", "t">>, <<"h", "a", "l", "t">>,
    <<"p", "o", "w", "e", "r", "o", "f", "f">> }

COMMON_SUBCOMMANDS ==
  (<<"g", "i", "t">> :> <<
       <<"a", "d", "d">>, <<"b", "i", "s", "e", "c", "t">>,
       <<"b", "r", "a", "n", "c", "h">>, <<"c", "h", "e", "c", "k", "o", "u", "t">>,
       <<"c", "l", "o", "n", "e">>, <<"c", "o", "m", "m", "i", "t">>,
       <<"d", "i", "f", "f">>, <<"f", "e", "t", "c", "h">>, <<"i", "n", "i", "t">>,
       <<"l", "o", "g">>, <<"m", "e", "r", "g", "e">>, <<"m", "v">>, <<"p", "u", "l", "l">>,
       <<"p", "u", "s", "h">>, <<"r", "e", "b", "a", "s", "e">>,
       <<"r", "e", "v", "e", "r", "t">>, <<"r", "m">>, <<"s", "h", "o", "w">>,
       <<"s", "t", "a", "s", "h">>, <<"s", "t", "a", "t", "u", "s">>,
       <<"s", "w", "i", "t", "c", "h">>, <<"t", "a", "g">>
     >>)
  @@ (<<"n", "p", "m">> :> <<
       <<"i", "n", "s", "t", "a", "l", "l">>, <<"i", "n", "i", "t">>, <<"r", "u", "n">>,
       <<"t", "e", "s", "t">>, <<"p", "u", "b", "l", "i", "s", "h">>,
       <<"l", "i", "n", "k">>, <<"l", "o", "g", "i", "n">>,
       <<"l", "o", "g", "o", "u", "t">>, <<"c", "i">>, <<"c", "o", "n", "f", "i", "g">>,
       <<"c", "a", "c", "h", "e">>, <<"s", "t", "a", "r", "t">>, <<"s", "t", "o", "p">>,
       <<"r", "e", "s", "t", "a", "r", "t">>, <<"u", "p", "d", "a", "t", "e">>,
       <<"o", "u", "t", "d", "a", "t", "e", "d">>, <<"l", "i", "s", "t">>,
       <<"p", "r", "u", "n", "e">>, <<"e", "x", "e", "c">>, <<"r", "o", "o", "t">>,
       <<"p", "a", "c", "k">>, <<"u", "n", "i", "n", "s", "t", "a", "l", "l">>
     >>)
  @@ (<<"y", "a", "r", "n">> :> <<
       <<"a", "d", "d">>, <<"i", "n", "s", "t", "a", "l", "l">>,
       <<"r", "e", "m", "o", "v", "e">>, <<"r", "u", "n">>, <<"t", "e", "s", "t">>,
       <<"i", "n", "i", "t">>, <<"u", "p", "g", "r", "a", "d", "e">>,
       <<"g", "l", "o", "b", "a", "l">>, <<"d", "l", "x">>,
       <<"c", "o", "n", "f", "i", "g">>, <<"l", "i", "s", "t">>
     >>)
  @@ (<<"p", "n", "p", "m">> :> <<
       <<"a", "d", "d">>, <<"i", "n", "s", "t", "a", "l", "l">>,
       <<"u", "p", "d", "a", "t", "e">>, <<"r", "e", "m", "o", "v", "e">>,
       <<"r", "u", "n">>, <<"e", "x", "e", "c">>, <<"l", "i", "s", "t">>,
       <<"p", "u", "b", "l", "i", "s", "h">>,
       <<"i", "n", "s", "t", "a", "l", "l", "-", "t", "e", "s", "t">>,
       <<"f", "e", "t", "c", "h">>
     >>)
  @@ (<<"p", "i", "p">> :> <<
       <<"i", "n", "s", "t", "a", "l", "l">>,
       <<"u", "n", "i", "n", "s", "t", "a", "l", "l">>, <<"l", "i", "s", "t">>,
       <<"f", "r", "e", "e", "z", "e">>, <<"s", "h", "o", "w">>,
       <<"s", "e", "a", "r", "c", "h">>, <<"c", "a", "c", "h", "e">>,
       <<"c", "o", "n", "f", "i", "g">>
     >>)
  @@ (<<"d", "o", "c", "k", "e", "r">> :> <<
       <<"b", "u", "i", "l", "d">>, <<"c", "o", "m", "m", "i", "t">>,
       <<"c", "o", "m", "p", "o", "s", "e">>, <<"c", "p">>,
       <<"c", "r", "e", "a", "t", "e">>, <<"d", "i", "f", "f">>,
       <<"e", "v", "e", "n", "t", "s">>, <<"e", "x", "e", "c">>,
       <<"i", "m", "a", "g", "e", "s">>, <<"i", "n", "f", "o">>,
       <<"i", "n", "s", "p", "e", "c", "t">>, <<"k", "i", "l", "l">>,
       <<"l", "o", "a", "d">>, <<"l", "o", "g", "s">>, <<"p", "a", "u", "s", "e">>,
       <<"p", "o", "r", "t">>, <<"p", "s">>, <<"p", "u", "l", "l">>, <<"p", "u", "s", "h">>,
       <<"r", "e", "n", "a", "m", "e">>, <<"r", "e", "s", "t", "a", "r", "t">>,
       <<"r", "m">>, <<"r", "m", "i">>, <<"r", "u", "n">>, <<"s", "a", "v", "e">>,
       <<"s", "t", "a", "r", "t">>, <<"s", "t", "a", "t", "s">>, <<"s", "t", "o", "p">>,
       <<"t", "a", "g">>, <<"t", "o", "p">>, <<"u", "n", "p", "a", "u", "s", "e">>,
       <<"u", "p", "d", "a", "t", "e">>, <<"v", "e", "r", "s", "i", "o", "n">>
     >>)
  @@ (<<"k", "u", "b", "e", "c", "t", "l">> :> <<
       <<"a", "p", "p", "l", "y">>, <<"g", "e", "t">>,
       <<"d", "e", "s", "c", "r", "i", "b", "e">>, <<"d", "e", "l", "e", "t", "e">>,
       <<"l", "o", "g", "s">>, <<"e", "x", "e", "c">>, <<"c", "r", "e", "a", "t", "e">>,
       <<"e", "d", "i", "t">>, <<"e", "x", "p", "l", "a", "i", "n">>,
       <<"e", "x", "p", "o", "s", "e">>,
       <<"p", "o", "r", "t", "-", "f", "o", "r", "w", "a", "r", "d">>, <<"t", "o", "p">>,
       <<"c", "p">>, <<"s", "c", "a", "l", "e">>, <<"r", "o", "l", "l", "o", "u", "t">>,
       <<"s", "e", "t">>, <<"e", "x", "p", "l", "a", "i", "n">>,
       <<"l", "a", "b", "e", "l">>, <<"a", "n", "n", "o", "t", "a", "t", "e">>,
       <<"c", "o", "r", "d", "o", "n">>, <<"d", "r", "a", "i", "n">>,
       <<"u", "n", "c", "o", "r", "d", "o", "n">>
     >>)
  @@ (<<"g", "h">> :> <<
       <<"a", "u", "t", "h">>, <<"r", "e", "p", "o">>, <<"i", "s", "s", "u", "e">>,
       <<"p", "r">>, <<"g", "i", "s", "t">>, <<"a", "l", "i", "a", "s">>, <<"a", "p", "i">>,
       <<"s", "e", "a", "r", "c", "h">>, <<"r", "u", "n">>,
       <<"w", "o", "r", "k", "f", "l", "o", "w">>, <<"s", "t", "a", "t", "u", "s">>,
       <<"l", "a", "b", "e", "l">>
     >>)

SAFE_SUBCOMMAND_BASES == DOMAIN COMMON_SUBCOMMANDS

SCRIPT_BASES == { <<"n", "p", "m">>, <<"y", "a", "r", "n">>, <<"p", "n", "p", "m">> }

(* ------------------------------ helpers ------------------------------- *)

Range(s) == { s[i] : i \in DOMAIN s }

Abs(x) == IF x < 0 THEN 0 - x ELSE x

\* String.prototype.toLowerCase on the letters
LOWER ==
  [ A |-> "a", B |-> "b", C |-> "c", D |-> "d", E |-> "e", F |-> "f", G |-> "g",
    H |-> "h", I |-> "i", J |-> "j", K |-> "k", L |-> "l", M |-> "m", N |-> "n",
    O |-> "o", P |-> "p", Q |-> "q", R |-> "r", S |-> "s", T |-> "t", U |-> "u",
    V |-> "v", W |-> "w", X |-> "x", Y |-> "y", Z |-> "z" ]

toLowerCase(c) == IF c \in DOMAIN LOWER THEN LOWER[c] ELSE c

\* variant: the token is compared as it is written
normalizeToken_asWritten(value) == value

normalizeToken(value) == [i \in 1..Len(value) |-> toLowerCase(value[i])]

startsWith(s, prefix) ==
  /\ Len(s) >= Len(prefix)
  /\ SubSeq(s, 1, Len(prefix)) = prefix

slice(s, from) == SubSeq(s, from + 1, Len(s))

(* --------------------------- similarity matcher ----------------------- *)

\* Math.min of two numbers
min(x, y) == IF x <= y THEN x ELSE y

\* variant: two swapped neighbours are not one edit
transposed_never(aNorm, bNorm, i, j, prev2, least) == least

\* the transposition step of the inner loop: least is the cell after Math.min
transposed(aNorm, bNorm, i, j, prev2, least) ==
  IF /\ i > 1
     /\ j > 1
     /\ aNorm[i] = bNorm[j - 1]
     /\ aNorm[i - 1] = bNorm[j]
     /\ prev2[j - 1] + 1 < least
    THEN prev2[j - 1] + 1
    ELSE least

\* dp[i][j]: deletion, insertion, substitution, then the transposition
dlCell(aNorm, bNorm, i, j, prev, prev2, cur) ==
  transposed(aNorm, bNorm, i, j, prev2,
             min(min(prev[j + 1] + 1, cur[j] + 1),
                 IF aNorm[i] = bNorm[j] THEN prev[j] ELSE prev[j] + 1))

\* one row dp[i][0..n] of the table, filled left to right; cur holds dp[i][0..j-1]
RECURSIVE dlRow(_, _, _, _, _, _)
dlRow(aNorm, bNorm, i, prev, prev2, cur) ==
  IF Len(cur) = Len(bNorm) + 1 THEN cur
  ELSE dlRow(aNorm, bNorm, i, prev, prev2,
             Append(cur, dlCell(aNorm, bNorm, i, Len(cur), prev, prev2, cur)))

\* the least of dp[i][1..n] and maxDistance + 1
RECURSIVE rowMinFrom(_, _, _)
rowMinFrom(cur, j, least) ==
  IF j > Len(cur) THEN least
  ELSE rowMinFrom(cur, j + 1, min(cur[j], least))

\* the outer loop over i (dlRows), with the row-minimum early return once the
\* row cur of i is filled (dlRowDone)
RECURSIVE dlRows(_, _, _, _, _, _)
RECURSIVE dlRowDone(_, _, _, _, _, _)
dlRowDone(aNorm, bNorm, maxDistance, i, cur, prev) ==
  IF rowMinFrom(cur, 2, maxDistance + 1) > maxDistance THEN maxDistance + 1
  ELSE dlRows(aNorm, bNorm, maxDistance, i + 1, cur, prev)

dlRows(aNorm, bNorm, maxDistance, i, prev, prev2) ==
  IF i > Len(aNorm) THEN prev[Len(bNorm) + 1]
  ELSE dlRowDone(aNorm, bNorm, maxDistance, i,
                 dlRow(aNorm, bNorm, i, prev, prev2, <<i>>), prev)

\* the function once both tokens are normalized
dlNormalized(aNorm, bNorm, maxDistance) ==
  IF aNorm = bNorm THEN 0
  ELSE IF Abs(Len(aNorm) - Len(bNorm)) > maxDistance THEN maxDistance + 1
  ELSE dlRows(aNorm, bNorm, maxDistance, 1,
              [j \in 1..(Len(bNorm) + 1) |-> j - 1],
              [j \in 1..(Len(bNorm) + 1) |-> 0])

damerauLevenshtein(a, b, maxDistance) ==
  dlNormalized(normalizeToken(a), normalizeToken(b), maxDistance)

NoMatch == [found |-> FALSE, match |-> <<>>, distance |-> 0]

\* the body of the loop over the candidates: st is (best, bestDistance, ties)
fbmStep(st, candidate, dist) ==
  IF dist < st.bestDistance
    THEN [best |-> candidate, bestDistance |-> dist, ties |-> <<candidate>>]
  ELSE IF dist = st.bestDistance
    THEN [st EXCEPT !.ties = Append(st.ties, candidate)]
  ELSE st

\* the loop over the candidates
RECURSIVE fbmScan(_, _, _, _, _)
fbmScan(candidates, target, maxDistance, k, st) ==
  IF k > Len(candidates) THEN st
  ELSE fbmScan(candidates, target, maxDistance, k + 1,
               fbmStep(st, candidates[k],
                       damerauLevenshtein(candidates[k], target, maxDistance)))

\* ties.filter(...): the tied candidates that are priority names
preferred(ties, priority) == SelectSeq(ties, LAMBDA v : normalizeToken(v) \in priority)

\* variant: a tie is settled in favour of the first tied candidate
fbmResult_firstOfTies(st, maxDistance, priority) ==
  IF st.best = <<>> \/ st.bestDistance > maxDistance THEN NoMatch
  ELSE [found |-> TRUE, match |-> st.best, distance |-> st.bestDistance]

\* what findBestMatch returns after the loop
fbmResult(st, maxDistance, priority) ==
  IF st.best = <<>> \/ st.bestDistance > maxDistance THEN NoMatch
  ELSE IF Len(st.ties) > 1
    THEN IF Len(preferred(st.ties, priority)) = 1
           THEN [found |-> TRUE, match |-> preferred(st.ties, priority)[1],
                 distance |-> st.bestDistance]
           ELSE NoMatch
  ELSE [found |-> TRUE, match |-> st.best, distance |-> st.bestDistance]

findBestMatchIn(candidates, target, maxDistance, priority) ==
  IF target = <<>> THEN NoMatch
  ELSE fbmResult(fbmScan(candidates, target, maxDistance, 1,
                         [best |-> <<>>, bestDistance |-> maxDistance + 1, ties |-> <<>>]),
                 maxDistance, priority)

(* --------------------------- captured output -------------------------- *)

\* A chunk of text.  kind says which regular expression of the code the text
\* matches, tok is the token the expression captures (or the command an error
\* message names), run is the number of the child process that wrote it
\* (0: written by the tool itself), from/to are the two sides of a logFix line.
Chunk(kind, tok, run) ==
  [kind |-> kind, tok |-> tok, run |-> run, from |-> <<>>, to |-> <<>>]

\* suggestionPatterns, in the order the code tries them
suggestionPatterns == <<"mostSimilarIs", "mostSimilarAre", "didYouMean",
                        "unknownCommand", "perhapsYouMeant">>

\* SCRIPT_ERROR_PATTERNS: the chunk kinds one of the five expressions matches
SCRIPT_ERROR_PATTERNS == {"missingScript"}

GIT_PATHSPEC_PATTERN == {"pathspec"}

NoSuggestion == [found |-> FALSE, tok |-> <<>>]

\* text.match(pattern): the captured token of the first chunk the pattern matches
RECURSIVE parseSuggestionFrom(_, _)
parseSuggestionFrom(text, p) ==
  IF p > Len(suggestionPatterns) THEN NoSuggestion
  ELSE
    LET hits == { i \in DOMAIN text : text[i].kind = suggestionPatterns[p] /\ text[i].tok # <<>> }
    IN  IF hits # {}
          THEN [found |-> TRUE, tok |-> text[CHOOSE i \in hits : \A k \in hits : i <= k].tok]
          ELSE parseSuggestionFrom(text, p + 1)

parseSuggestion(text) == parseSuggestionFrom(text, 1)

isScriptError(output) == \E i \in DOMAIN output : output[i].kind \in SCRIPT_ERROR_PATTERNS

isPathspecError(output) == \E i \in DOMAIN output : output[i].kind \in GIT_PATHSPEC_PATTERN

\* `${result.stderr}\n${result.stdout}`
combined(result) == result.stderr \o result.stdout

(* ------------------------------ safety gate --------------------------- *)

\* RISKY_ARG_PATTERNS: the three short flags are matched exactly, the five
\* word flags case-insensitively
RISKY_EXACT == { <<"-", "f">>, <<"-", "r", "f">>, <<"-", "f", "r">> }

RISKY_NOCASE ==
  { <<"-", "-", "f", "o", "r", "c", "e">>, <<"-", "-", "h", "a", "r", "d">>,
    <<"-", "-", "d", "e", "l", "e", "t", "e">>, <<"-", "-", "p", "u", "r", "g", "e">>,
    <<"-", "-", "n", "o", "-", "p", "r", "e", "s", "e", "r", "v", "e", "-", "r", "o", "o", "t">> }

isRiskyArg(arg) == arg \in RISKY_EXACT \/ normalizeToken(arg) \in RISKY_NOCASE

hasRiskyArgs(args) == \E i \in DOMAIN args : isRiskyArg(args[i])

(* ------------------------- shell-profile installer -------------------- *)

\* A profile's content is a sequence of pieces: "S" the start marker, "E" the
\* end marker, "NL" a newline, "U" a run of the user's own text, "B"/"P" the
\* hook lines of the Unix / PowerShell snippet.
MARKER_START == "S"

MARKER_END == "E"

isSpace(piece) == piece = "NL"

indexFrom(content, piece, from) ==
  LET hits == { i \in from..Len(content) : content[i] = piece }
  IN  IF hits = {} THEN 0 ELSE CHOOSE i \in hits : \A k \in hits : i <= k

RECURSIVE skipSpace(_, _)
skipSpace(content, k) ==
  IF k <= Len(content) /\ isSpace(content[k]) THEN skipSpace(content, k + 1) ELSE k

\* content.replace(BLOCK_REGEX, ''): every start marker, the shortest text up
\* to an end marker, and the whitespace after it
RECURSIVE replaceBlocks(_)
replaceBlocks(content) ==
  LET i == indexFrom(content, MARKER_START, 1)
      j == IF i = 0 THEN 0 ELSE indexFrom(content, MARKER_END, i + 1)
  IN  IF i = 0 \/ j = 0 THEN content
      ELSE SubSeq(content, 1, i - 1)
             \o replaceBlocks(SubSeq(content, skipSpace(content, j + 1), Len(content)))

RECURSIVE trimEnd(_)
trimEnd(content) ==
  IF content # <<>> /\ isSpace(content[Len(content)])
    THEN trimEnd(SubSeq(content, 1, Len(content) - 1))
    ELSE content

stripBlock(content) == trimEnd(replaceBlocks(content))

buildUnixSnippet == <<MARKER_START, "NL", "B", "NL", MARKER_END, "NL">>

buildPowerShellSnippet == <<MARKER_START, "NL", "P", "NL", MARKER_END, "NL">>

Absent == [exists |-> FALSE, content |-> <<>>]

File(content) == [exists |-> TRUE, content |-> content]

\* the two profile paths of either platform, in the order the code lists them
getProfileTargets == <<1, 2>>

updateProfile(file, snippet) ==
  LET content     == IF file.exists THEN file.content ELSE <<>>
      cleaned     == stripBlock(content)
      spacer      == IF Len(cleaned) > 0 THEN <<"NL", "NL">> ELSE <<>>
      nextContent == cleaned \o spacer \o snippet
  IN  [file |-> File(nextContent), updated |-> content # nextContent]

removeProfileSnippet(file) ==
  IF ~file.exists THEN [file |-> file, updated |-> FALSE]
  ELSE
    LET cleaned == stripBlock(file.content)
    IN  IF cleaned = file.content THEN [file |-> file, updated |-> FALSE]
        ELSE [file |-> File(IF cleaned # <<>> THEN cleaned \o <<"NL">> ELSE <<>>),
              updated |-> TRUE]

pickTargets(platform, files) ==
  LET existing == SelectSeq(getProfileTargets, LAMBDA t : files[t].exists)
  IN  IF platform = "win32" THEN getProfileTargets
      ELSE IF Len(existing) > 0 THEN existing
      ELSE <<getProfileTargets[1]>>

\* installer.enable: the targets are updated in order; failAt = k > 0 is a
\* file-system error thrown while writing the k-th target
enable(platform, files, failAt) ==
  LET targets == pickTargets(platform, files)
      snippet == IF platform = "win32" THEN buildPowerShellSnippet ELSE buildUnixSnippet
      done    == IF failAt = 0 THEN Range(targets)
                 ELSE { targets[k] : k \in 1..(failAt - 1) }
  IN  [files   |-> [t \in DOMAIN files |->
                      IF t \in done THEN updateProfile(files[t], snippet).file ELSE files[t]],
       updated |-> \E t \in Range(targets) : updateProfile(files[t], snippet).updated,
       threw   |-> failAt # 0]

disable(files) ==
  [files   |-> [t \in DOMAIN files |-> removeProfileSnippet(files[t]).file],
   updated |-> \E t \in DOMAIN files : removeProfileSnippet(files[t]).updated]

status(files) ==
  [t \in DOMAIN files |->
     /\ files[t].exists
     /\ MARKER_START \in Range(files[t].content)
     /\ MARKER_END \in Range(files[t].content)]

(* ------------------------------- inputs ------------------------------- *)

\* argv[0] values: mistyped and well-typed commands, an aliased one, a name
\* nothing resembles, a base whose dictionary lists a name twice, and the
\* three hook-management actions
BaseTokens ==
  { <<"g", "t", "i">>, <<"g", "i", "t">>, <<"n", "m", "p">>, <<"n", "p", "m">>,
    <<"r", "n">>, <<"g", "e", "t", "-", "r", "m">>, <<"z", "z", "z", "z", "z">>,
    <<"k", "u", "b", "e", "c", "t", "l">>,
    <<"e", "n", "a", "b", "l", "e">>, <<"d", "i", "s", "a", "b", "l", "e">>,
    <<"s", "t", "a", "t", "u", "s">> }

\* args[0]: two mistyped subcommands, the two subcommands the script and
\* branch strategies look for, a harmless flag and a risky one
FirstArgs ==
  { <<"c", "o", "m", "i", "t">>, <<"e", "x", "p", "l", "a", "n">>, <<"r", "u", "n">>,
    <<"c", "h", "e", "c", "k", "o", "u", "t">>, <<"-", "m">>,
    <<"-", "-", "F", "o", "r", "c", "e">> }

\* args[1]: a mistyped script name, a mistyped branch name, a risky flag
SecondArgs ==
  { <<"b", "i", "u", "l", "d">>, <<"m", "i", "a", "n">>, <<"-", "r", "f">> }

\* args[2..]: a harmless value and a risky flag
MoreArgs == { <<"x">>, <<"-", "-", "h", "a", "r", "d">> }

ArgsAt(i) == IF i = 1 THEN FirstArgs ELSE IF i = 2 THEN SecondArgs ELSE MoreArgs

ArgLists ==
  UNION { { a \in [1..k -> FirstArgs \cup SecondArgs \cup MoreArgs] :
              \A i \in 1..k : a[i] \in ArgsAt(i) } : k \in 0..MaxArgs }

Argvs == { <<>> } \cup { <<b>> \o a : b \in BaseTokens, a \in ArgLists }

\* snapshots of the executables on the search path
PathPools ==
  { <<>>,
    << <<"g", "i", "t">>, <<"n", "p", "m">>, <<"r", "m">>,
       <<"k", "u", "b", "e", "c", "t", "l">> >> }

\* tokens a failing child names in its "did you mean" text
SuggestedTokens == { <<"c", "o", "m", "m", "i", "t">>, <<"s", "t", "a", "t", "u", "s">> }

\* what Object.keys(scripts) of a manifest can be
ScriptPools ==
  { <<>>,
    << <<"b", "u", "i", "l", "d">>, <<"t", "e", "s", "t">> >>,
    << <<"b", "u", "i", "l", "d">>, <<"b", "i", "u", "l", "d">> >> }

\* what a `git branch` that exits 0 can list
BranchPools ==
  { <<>>,
    << <<"m", "a", "i", "n">>, <<"d", "e", "v">> >>,
    << <<"m", "a", "i", "n">>, <<"m", "a", "i", "n", "t">> >> }

InitProfiles ==
  { [t \in {1, 2} |-> Absent],
    [t \in {1, 2} |-> IF t = 1 THEN File(<<"U", "NL">>) ELSE Absent],
    [t \in {1, 2} |-> IF t = 1 THEN File(<<"U", "NL", "NL">> \o buildUnixSnippet) ELSE Absent] }

Envs ==
  [ PATH_COMMANDS         : PathPools,
    MAX_DISTANCE          : {1},
    ENV_PRIORITY_BASES    : { {} },
    ALLOW_ANY_SUBCOMMANDS : {FALSE},
    SKIP_ENABLE           : BOOLEAN,
    platform              : {"linux"} ]

\* tokens a failing script runner names in a "did you mean" text that comes
\* with its script-not-found message
SuggestedScripts == { <<"b", "u", "n">> }

(* -------------------------------- state ------------------------------- *)

VARIABLES
  env,        \* process.env, process.platform and the PATH snapshot
  argv,       \* process.argv.slice(2)
  files,      \* the shell profiles on disk
  pc,         \* where main() is
  baseCommand,\* main's baseCommand, after normalizePowerShellGetPrefix
  rest,       \* main's rest
  firstRun,   \* result of the original invocation
  cur,        \* the invocation and output the strategies work on, and the
              \* result main falls back to when none of them corrects
  runs,       \* every call of run(), in order
  consulted,  \* the strategies called and the pools fetched, in order
  stdout,     \* what the tool wrote to its stdout
  stderr,     \* what the tool wrote to its stderr
  exitCode,   \* the code passed to process.exit, NoExit while running
  stateFile,  \* ~/.fuzzrun/state.json, which the postinstall script writes
  history,    \* argv[0] of the processes of the tool that ended before this one
  call,       \* a call of a function of the matcher on its own
  ret         \* what that call returned

vars == <<env, argv, files, pc, baseCommand, rest, firstRun, cur, runs,
          consulted, stdout, stderr, exitCode, stateFile, history, call, ret>>

\* what main() never touches
outside == <<stateFile, history, call, ret>>

NoExit == -1

\* spawnSync reports no status (null) for a child that was not started or
\* that a signal ended
NoStatus == -1

NoResult == [status |-> NoStatus, code |-> 0, stdout |-> <<>>, stderr |-> <<>>,
             error |-> "none"]

NoCur == [command |-> <<>>, args |-> <<>>, output |-> <<>>, result |-> NoResult]

\* no state file on disk
NoState == [exists |-> FALSE, bannerShown |-> FALSE, enableSucceeded |-> FALSE,
            lastError |-> FALSE]

\* JSON.stringify(next) written to the state file
State(bannerShown, enableSucceeded, lastError) ==
  [exists |-> TRUE, bannerShown |-> bannerShown, enableSucceeded |-> enableSucceeded,
   lastError |-> lastError]

NoCall == [op |-> "none", a |-> <<>>, b |-> <<>>, candidates |-> <<>>, target |-> <<>>,
           maxDistance |-> 0, dir |-> 0, manifests |-> {}, file |-> Absent,
           before |-> Absent]

NoRet == [done |-> FALSE, value |-> 0]

PRIORITY_BASES == DEFAULT_PRIORITY_BASES \cup env.ENV_PRIORITY_BASES

MAX_DISTANCE == env.MAX_DISTANCE

PATH_COMMANDS == env.PATH_COMMANDS

findBestMatch(candidates, target, maxDistance) ==
  findBestMatchIn(candidates, target, maxDistance, PRIORITY_BASES)

(* ------------------------- child processes ---------------------------- *)

\* What spawnSync(cmd, args) can return for the n-th child.  A name that is
\* not on the search path cannot be started (ENOENT); one that is can exit
\* 0, exit nonzero with any of the texts the strategies look for, be ended by
\* a signal, or fail to start for another reason.
spawnSync(cmd, args, n) ==
  IF cmd \notin Range(PATH_COMMANDS)
    THEN { [status |-> NoStatus, stdout |-> <<>>, stderr |-> <<>>, error |-> "ENOENT"] }
    ELSE
      { [status |-> 0, stdout |-> <<Chunk("plain", <<>>, n)>>, stderr |-> <<>>,
         error |-> "none"],
        [status |-> 2, stdout |-> <<Chunk("plain", <<>>, n)>>,
         stderr |-> <<Chunk("plain", <<>>, n)>>, error |-> "none"],
        [status |-> 1, stdout |-> <<>>, stderr |-> <<Chunk("missingScript", <<>>, n)>>,
         error |-> "none"],
        [status |-> 1, stdout |-> <<>>, stderr |-> <<Chunk("pathspec", <<>>, n)>>,
         error |-> "none"],
        [status |-> NoStatus, stdout |-> <<Chunk("plain", <<>>, n)>>, stderr |-> <<>>,
         error |-> "none"],
        [status |-> NoStatus, stdout |-> <<>>, stderr |-> <<>>, error |-> "EACCES"] }
      \cup
      { [status |-> 1, stdout |-> <<>>, stderr |-> <<Chunk(k, t, n)>>, error |-> "none"] :
          k \in {"mostSimilarIs", "didYouMean"}, t \in SuggestedTokens }
      \cup
      { [status |-> 1, stdout |-> <<>>,
         stderr |-> <<Chunk("missingScript", <<>>, n), Chunk("didYouMean", t, n)>>,
         error |-> "none"] : t \in SuggestedScripts }

\* run(cmd, args): the captured result with the exit code the tool derives
run(raw) ==
  [status |-> raw.status,
   code   |-> IF raw.status # NoStatus THEN raw.status
              ELSE IF raw.error # "none" THEN 1 ELSE 0,
   stdout |-> raw.stdout,
   stderr |-> raw.stderr,
   error  |-> raw.error]

\* one entry of runs: the step of main that called run ("original", "base",
\* "subcommand", "script", "branch"), the invocation and its result
Call(by, cmd, args, result) == [by |-> by, cmd |-> cmd, args |-> args, result |-> result]

\* one entry of consulted: the strategy called, whether it fetched its dynamic
\* pool and what the pool was, and whether it returned a correction
Consult(strategy, fetched, pool, found) ==
  [strategy |-> strategy, fetched |-> fetched, pool |-> pool, found |-> found]

\* one entry of consulted for a strategy that fetched its dynamic pool: also
\* how the fetch went
Fetch(strategy, source, pool, found) ==
  [strategy |-> strategy, fetched |-> TRUE, pool |-> pool, found |-> found,
   source |-> source]

(* ---------------------- dynamic candidate sources --------------------- *)

\* A directory is its depth below the filesystem root, which is 0; the
\* ancestors of a directory are the smaller depths.
Dirs == 0..MaxDepth

\* path.dirname: the parent, and the root for the root
dirname(dir) == IF dir = 0 THEN 0 ELSE dir - 1

\* null of findPackageJson
NoPath == -1

\* manifests: the directories that hold a package.json
RECURSIVE findPackageJson(_, _)
findPackageJson(current, manifests) ==
  IF current = dirname(current) THEN NoPath
  ELSE IF current \in manifests THEN current
  ELSE findPackageJson(dirname(current), manifests)

\* what reading and parsing a package.json can give
ManifestFiles ==
  { [state |-> "unreadable", scripts |-> <<>>], [state |-> "invalid", scripts |-> <<>>] }
  \cup { [state |-> "ok", scripts |-> s] : s \in ScriptPools }

\* the directories that hold a manifest and the manifest that is found
Disks == [manifests : SUBSET Dirs, file : ManifestFiles]

\* how the lookup of getPackageScripts went: no manifest, readFileSync threw,
\* JSON.parse threw, or the keys were read
manifestRead(cwd, disk) ==
  IF findPackageJson(cwd, disk.manifests) = NoPath THEN "none" ELSE disk.file.state

getPackageScripts(cwd, disk) ==
  IF findPackageJson(cwd, disk.manifests) = NoPath THEN <<>>
  ELSE IF disk.file.state # "ok" THEN <<>>
  ELSE disk.file.scripts

\* what spawnSync('git', ['branch', ...]) can return: the lines of its
\* standard output and its status, NoStatus when git could not be started
BranchQueries ==
  { [status |-> 0, lines |-> b] : b \in BranchPools }
  \cup { [status |-> 128, lines |-> <<>>],
         [status |-> 1, lines |-> << <<"m", "a", "i", "n">>, <<"d", "e", "v">> >>],
         [status |-> NoStatus, lines |-> <<>>] }

\* how the query of getGitBranches went
branchQuery(result) ==
  IF result.status = 0 THEN "ok"
  ELSE IF result.status = NoStatus THEN "notStarted"
  ELSE "failed"

\* variant: the lines are read whatever the query's status is
getGitBranches_ignoresStatus(result) == result.lines

getGitBranches(result) == IF result.status # 0 THEN <<>> ELSE result.lines

\* error.message of a spawn error: the runtime's text "spawnSync <cmd> <code>",
\* never empty
errorMessage(error, cmd) ==
  IF error = "none" THEN <<>> ELSE <<Chunk("spawnSyncError", cmd, 0)>>

\* the line main writes when tryBaseCorrection returned nothing: the error's
\* message if it has one, else the tool's own "command not found" line
notFoundLine(error, cmd) ==
  IF errorMessage(error, cmd) # <<>> THEN errorMessage(error, cmd)
  ELSE <<Chunk("commandNotFound", cmd, 0)>>

logFix(from, to) ==
  [kind |-> "logFix", tok |-> <<>>, run |-> 0, from |-> from, to |-> to]

(* --------------------------------- main ------------------------------- *)

normalizePowerShellGetPrefix(command) ==
  LET lowered  == normalizeToken(command)
      stripped == slice(command, 4)
  IN  IF command = <<>> THEN command
      ELSE IF ~startsWith(lowered, <<"g", "e", "t", "-">>) THEN command
      ELSE IF command \in Range(PATH_COMMANDS) \/ lowered \in Range(PATH_COMMANDS) THEN command
      ELSE IF stripped = <<>> THEN command
      ELSE IF stripped \in Range(PATH_COMMANDS) THEN stripped
      ELSE IF findBestMatch(PATH_COMMANDS, stripped, MAX_DISTANCE).found THEN stripped
      ELSE command

\* the process is bin/fuzzrun.js with some argv, or scripts/postinstall.js
Init ==
  /\ env \in Envs
  /\ files \in InitProfiles
  /\ \/ pc = "start" /\ argv \in Argvs
     \/ pc = "postinstall" /\ argv = <<>>
  /\ baseCommand = <<>>
  /\ rest = <<>>
  /\ firstRun = NoResult
  /\ cur = NoCur
  /\ runs = <<>>
  /\ consulted = <<>>
  /\ stdout = <<>>
  /\ stderr = <<>>
  /\ exitCode = NoExit
  /\ stateFile = NoState
  /\ history = <<>>
  /\ call = NoCall
  /\ ret = NoRet

isAction(a) ==
  a \in { <<"e", "n", "a", "b", "l", "e">>, <<"d", "i", "s", "a", "b", "l", "e">>,
          <<"s", "t", "a", "t", "u", "s">> }

\* process.exit(code) after the writes
Exit(out, err, code) ==
  /\ stdout' = stdout \o out
  /\ stderr' = stderr \o err
  /\ exitCode' = code
  /\ pc' = "done"

\* main with an empty argv
Usage ==
  /\ pc = "start"
  /\ argv = <<>>
  /\ Exit(<<>>, <<Chunk("usage", <<>>, 0)>>, 1)
  /\ UNCHANGED <<outside, env, argv, files, baseCommand, rest, firstRun, cur, runs, consulted>>

\* fuzzrun enable; a file-system error is not caught and ends the process
Enable ==
  /\ pc = "start"
  /\ argv # <<>>
  /\ argv[1] = <<"e", "n", "a", "b", "l", "e">>
  /\ \E failAt \in 0..Len(pickTargets(env.platform, files)) :
       \E r \in {enable(env.platform, files, failAt)} :
         /\ files' = r.files
         /\ IF r.threw
              THEN Exit(<<>>, <<Chunk("uncaughtException", <<>>, 0)>>, 1)
              ELSE Exit(<<Chunk(IF r.updated THEN "enabled" ELSE "alreadyEnabled", <<>>, 0)>>,
                        <<>>, 0)
  /\ UNCHANGED <<outside, env, argv, baseCommand, rest, firstRun, cur, runs, consulted>>

\* fuzzrun disable
Disable ==
  /\ pc = "start"
  /\ argv # <<>>
  /\ argv[1] = <<"d", "i", "s", "a", "b", "l", "e">>
  /\ \E r \in {disable(files)} :
       /\ files' = r.files
       /\ Exit(<<Chunk(IF r.updated THEN "disabled" ELSE "alreadyDisabled", <<>>, 0)>>,
               <<>>, 0)
  /\ UNCHANGED <<outside, env, argv, baseCommand, rest, firstRun, cur, runs, consulted>>

\* fuzzrun status: one line per profile
Status ==
  /\ pc = "start"
  /\ argv # <<>>
  /\ argv[1] = <<"s", "t", "a", "t", "u", "s">>
  /\ Exit([k \in 1..Len(getProfileTargets) |->
             [kind |-> IF status(files)[getProfileTargets[k]]
                         THEN "statusEnabled" ELSE "statusDisabled",
              tok |-> <<>>, run |-> 0, from |-> <<>>, to |-> <<>>]],
          <<>>, 0)
  /\ UNCHANGED <<outside, env, argv, files, baseCommand, rest, firstRun, cur, runs, consulted>>

\* the auto-enable block of main: skipped when FUZZRUN_SKIP_ENABLE is 1 and
\* when some profile is enabled; an error of the installer is caught
AutoEnable ==
  /\ pc = "start"
  /\ argv # <<>>
  /\ ~isAction(argv[1])
  /\ IF env.SKIP_ENABLE \/ (\E t \in DOMAIN files : status(files)[t])
       THEN UNCHANGED <<files, stdout, stderr>>
       ELSE \E failAt \in 0..Len(pickTargets(env.platform, files)) :
              \E r \in {enable(env.platform, files, failAt)} :
                /\ files' = r.files
                /\ stdout' = IF ~r.threw /\ r.updated
                               THEN stdout \o <<Chunk("autoEnabled", <<>>, 0)>>
                               ELSE stdout
                /\ stderr' = IF r.threw
                               THEN stderr \o <<Chunk("autoEnableFailed", <<>>, 0)>>
                               ELSE stderr
  /\ pc' = "first"
  /\ UNCHANGED <<outside, env, argv, baseCommand, rest, firstRun, cur, runs, consulted, exitCode>>

NoProposal == [found |-> FALSE, command |-> <<>>, args |-> <<>>]

Proposal(command, args) == [found |-> TRUE, command |-> command, args |-> args]

\* tryBaseCorrection from the suggestion to its call of run
baseProposalOf(suggestion, command, args) ==
  IF /\ suggestion.found
     /\ suggestion.match \notin DANGEROUS_BASE
     /\ suggestion.match # command
    THEN Proposal(suggestion.match, args)
    ELSE NoProposal

\* variant: the denylist is not consulted
baseProposal_noDenylist(command, args) ==
  LET suggestion == findBestMatch(PATH_COMMANDS, command, MAX_DISTANCE)
  IN  IF hasRiskyArgs(args) THEN NoProposal
      ELSE IF suggestion.found /\ suggestion.match # command
        THEN Proposal(suggestion.match, args)
        ELSE NoProposal

\* tryBaseCorrection up to its call of run
baseProposal(command, args) ==
  IF hasRiskyArgs(args) THEN NoProposal
  ELSE baseProposalOf(findBestMatch(PATH_COMMANDS, command, MAX_DISTANCE), command, args)

\* COMMON_SUBCOMMANDS[command] || []
subcommandCandidates(command) ==
  IF command \in DOMAIN COMMON_SUBCOMMANDS THEN COMMON_SUBCOMMANDS[command] ELSE <<>>

\* outputDistance of trySubcommandCorrection
outputDistance(fromOutput, attemptedSub) ==
  IF fromOutput.found
    THEN damerauLevenshtein(fromOutput.tok, attemptedSub, MAX_DISTANCE)
    ELSE MAX_DISTANCE + 1

\* variant: the dictionary's best match is preferred to the output's suggestion
choiceAt_dictionaryFirst(distance, fromOutput, fromDict) ==
  IF fromDict.found THEN fromDict.match
  ELSE IF distance <= MAX_DISTANCE THEN fromOutput.tok
  ELSE <<>>

\* choice of trySubcommandCorrection, given outputDistance (<<>>: null)
choiceAt(distance, fromOutput, fromDict) ==
  IF distance <= MAX_DISTANCE THEN fromOutput.tok
  ELSE IF fromDict.found THEN fromDict.match
  ELSE <<>>

subcommandChoice(fromOutput, fromDict, attemptedSub) ==
  choiceAt(outputDistance(fromOutput, attemptedSub), fromOutput, fromDict)

\* trySubcommandCorrection from the choice to its call of run
subcommandProposalOf(choice, command, args) ==
  IF /\ choice # <<>>
     /\ choice # args[1]
     /\ damerauLevenshtein(choice, args[1], MAX_DISTANCE) <= MAX_DISTANCE
    THEN Proposal(command, <<choice>> \o slice(args, 1))
    ELSE NoProposal

\* variant: the risky-argument gate is missing
subcommandProposal_noRiskGate(command, args, combinedOutput) ==
  IF command \notin SAFE_SUBCOMMAND_BASES /\ ~env.ALLOW_ANY_SUBCOMMANDS THEN NoProposal
  ELSE IF Len(args) = 0 THEN NoProposal
  ELSE IF startsWith(args[1], <<"-">>) THEN NoProposal
  ELSE subcommandProposalOf(
         subcommandChoice(parseSuggestion(combinedOutput),
                          findBestMatch(subcommandCandidates(command), args[1], MAX_DISTANCE),
                          args[1]),
         command, args)

\* trySubcommandCorrection up to its call of run
subcommandProposal(command, args, combinedOutput) ==
  IF command \notin SAFE_SUBCOMMAND_BASES /\ ~env.ALLOW_ANY_SUBCOMMANDS THEN NoProposal
  ELSE IF Len(args) = 0 THEN NoProposal
  ELSE IF startsWith(args[1], <<"-">>) THEN NoProposal
  ELSE IF hasRiskyArgs(args) THEN NoProposal
  ELSE subcommandProposalOf(
         subcommandChoice(parseSuggestion(combinedOutput),
                          findBestMatch(subcommandCandidates(command), args[1], MAX_DISTANCE),
                          args[1]),
         command, args)

\* variant: the token that is replaced is kept after its replacement
secondArgProposal_keepsOld(match, command, args) ==
  IF match.found
    THEN Proposal(command, <<args[1], match.match>> \o slice(args, 1))
    ELSE NoProposal

\* [args[0], match.match, ...args.slice(2)] of tryScriptCorrection and
\* tryGitBranchCorrection
secondArgProposal(match, command, args) ==
  IF match.found
    THEN Proposal(command, <<args[1], match.match>> \o slice(args, 2))
    ELSE NoProposal

\* the conditions of tryScriptCorrection that precede the manifest lookup
scriptApplies(command, args, combinedOutput) ==
  /\ command \in SCRIPT_BASES
  /\ Len(args) >= 2
  /\ args[1] = <<"r", "u", "n">>
  /\ args[2] # <<>>
  /\ ~startsWith(args[2], <<"-">>)
  /\ isScriptError(combinedOutput)
  /\ ~hasRiskyArgs(args)

\* tryScriptCorrection from the lookup to its call of run
scriptProposal(command, args, scripts) ==
  secondArgProposal(findBestMatch(scripts, args[2], MAX_DISTANCE), command, args)

\* the conditions of tryGitBranchCorrection that precede the branch query
branchApplies(command, args, combinedOutput) ==
  /\ command = <<"g", "i", "t">>
  /\ Len(args) >= 2
  /\ args[1] \in { <<"c", "h", "e", "c", "k", "o", "u", "t">>, <<"s", "w", "i", "t", "c", "h">> }
  /\ args[2] # <<>>
  /\ ~startsWith(args[2], <<"-">>)
  /\ isPathspecError(combinedOutput)
  /\ ~hasRiskyArgs(args)

\* tryGitBranchCorrection from the query to its call of run
branchProposal(command, args, branches) ==
  secondArgProposal(findBestMatch(branches, args[2], MAX_DISTANCE), command, args)

\* variant: success is read off the child's status instead of the derived code
afterFirstRun_statusOnly(result) ==
  IF result.error = "ENOENT" THEN "notFound"
  ELSE IF result.status = 0 THEN "success"
  ELSE "subcommand"

\* where main goes after the first execution
afterFirstRun(result) ==
  IF result.error = "ENOENT" THEN "notFound"
  ELSE IF result.code = 0 THEN "success"
  ELSE "subcommand"

\* variant: the chained strategies are tried whatever the corrected run returned
afterBaseRun_always(result) == "subcommand"

\* where main goes after the base-corrected execution
afterBaseRun(result) == IF result.code # 0 THEN "subcommand" ELSE "corrected"

\* variant: the arguments are lower-cased like a token that is matched
RunOriginal_loweredArgs ==
  /\ pc = "first"
  /\ \E command \in {normalizePowerShellGetPrefix(argv[1])} :
       \E args \in {[i \in 1..(Len(argv) - 1) |-> normalizeToken(argv[i + 1])]} :
         \E raw \in spawnSync(command, args, 1) :
           \E result \in {run(raw)} :
             /\ baseCommand' = command
             /\ rest' = args
             /\ firstRun' = result
             /\ runs' = Append(runs, Call("original", command, args, result))
             /\ pc' = afterFirstRun(result)
             /\ cur' = [command |-> command, args |-> args,
                        output |-> combined(result), result |-> result]
  /\ UNCHANGED <<outside, env, argv, files, consulted, stdout, stderr, exitCode>>

\* the alias normalization and the original invocation
RunOriginal ==
  /\ pc = "first"
  /\ \E command \in {normalizePowerShellGetPrefix(argv[1])} :
       \E raw \in spawnSync(command, Tail(argv), 1) :
         \E result \in {run(raw)} :
           /\ baseCommand' = command
           /\ rest' = Tail(argv)
           /\ firstRun' = result
           /\ runs' = Append(runs, Call("original", command, Tail(argv), result))
           /\ pc' = afterFirstRun(result)
           /\ cur' = [command |-> command, args |-> Tail(argv),
                      output |-> combined(result), result |-> result]
  /\ UNCHANGED <<outside, env, argv, files, consulted, stdout, stderr, exitCode>>

\* first execution exited 0: its output is written and the tool exits 0
Success ==
  /\ pc = "success"
  /\ Exit(firstRun.stdout, firstRun.stderr, 0)
  /\ UNCHANGED <<outside, env, argv, files, baseCommand, rest, firstRun, cur, runs, consulted>>

\* the ENOENT branch of main: tryBaseCorrection and what follows it up to the
\* chained strategies
BaseCorrection ==
  /\ pc = "notFound"
  /\ \E p \in {baseProposal(baseCommand, rest)} :
       /\ consulted' = Append(consulted, Consult("base", FALSE, <<>>, p.found))
       /\ IF p.found
            THEN \E raw \in spawnSync(p.command, p.args, Len(runs) + 1) :
                   \E result \in {run(raw)} :
                     /\ runs' = Append(runs, Call("base", p.command, p.args, result))
                     /\ cur' = [command |-> p.command, args |-> p.args,
                                output |-> combined(result), result |-> result]
                     /\ IF afterBaseRun(result) = "subcommand"
                          THEN /\ pc' = "subcommand"
                               /\ stderr' = Append(stderr, logFix(<<baseCommand>>, <<p.command>>))
                               /\ UNCHANGED <<stdout, exitCode>>
                          ELSE Exit(result.stdout,
                                    <<logFix(<<baseCommand>>, <<p.command>>)>> \o result.stderr,
                                    result.code)
            ELSE /\ Exit(<<>>, notFoundLine(firstRun.error, baseCommand), firstRun.code)
                 /\ UNCHANGED <<runs, cur>>
  /\ UNCHANGED <<outside, env, argv, files, baseCommand, rest, firstRun>>

\* variant: the exit code of the execution that was corrected is kept
RunCorrected_exitsOld(by, p, from, to) ==
  \E raw \in spawnSync(p.command, p.args, Len(runs) + 1) :
    \E result \in {run(raw)} :
      /\ runs' = Append(runs, Call(by, p.command, p.args, result))
      /\ Exit(result.stdout, <<logFix(from, to)>> \o result.stderr, cur.result.code)

\* variant: the output of the execution that was corrected is written too
RunCorrected_forwardsOld(by, p, from, to) ==
  \E raw \in spawnSync(p.command, p.args, Len(runs) + 1) :
    \E result \in {run(raw)} :
      /\ runs' = Append(runs, Call(by, p.command, p.args, result))
      /\ Exit(cur.result.stdout \o result.stdout,
              <<logFix(from, to)>> \o cur.result.stderr \o result.stderr, result.code)

\* a strategy's corrected invocation is executed and its result is final
RunCorrected(by, p, from, to) ==
  \E raw \in spawnSync(p.command, p.args, Len(runs) + 1) :
    \E result \in {run(raw)} :
      /\ runs' = Append(runs, Call(by, p.command, p.args, result))
      /\ Exit(result.stdout, <<logFix(from, to)>> \o result.stderr, result.code)

TrySubcommand ==
  /\ pc = "subcommand"
  /\ \E p \in {subcommandProposal(cur.command, cur.args, cur.output)} :
       /\ consulted' = Append(consulted, Consult("subcommand", FALSE, <<>>, p.found))
       /\ IF p.found
            THEN RunCorrected("subcommand", p, <<cur.command, cur.args[1]>>,
                              <<cur.command, p.args[1]>>)
            ELSE /\ pc' = "script"
                 /\ UNCHANGED <<runs, stdout, stderr, exitCode>>
  /\ UNCHANGED <<outside, env, argv, files, baseCommand, rest, firstRun, cur>>

TryScript ==
  /\ pc = "script"
  /\ IF scriptApplies(cur.command, cur.args, cur.output)
       THEN \E cwd \in Dirs, disk \in Disks :
              \E p \in {scriptProposal(cur.command, cur.args, getPackageScripts(cwd, disk))} :
                /\ consulted' = Append(consulted,
                                       Fetch("script", manifestRead(cwd, disk),
                                             getPackageScripts(cwd, disk), p.found))
                /\ IF p.found
                     THEN RunCorrected("script", p,
                                       <<cur.command, cur.args[1], cur.args[2]>>,
                                       <<cur.command, cur.args[1], p.args[2]>>)
                     ELSE /\ pc' = "branch"
                          /\ UNCHANGED <<runs, stdout, stderr, exitCode>>
       ELSE /\ consulted' = Append(consulted, Consult("script", FALSE, <<>>, FALSE))
            /\ pc' = "branch"
            /\ UNCHANGED <<runs, stdout, stderr, exitCode>>
  /\ UNCHANGED <<outside, env, argv, files, baseCommand, rest, firstRun, cur>>

TryGitBranch ==
  /\ pc = "branch"
  /\ IF branchApplies(cur.command, cur.args, cur.output)
       THEN \E query \in BranchQueries :
              \E p \in {branchProposal(cur.command, cur.args, getGitBranches(query))} :
                /\ consulted' = Append(consulted,
                                       Fetch("branch", branchQuery(query),
                                             getGitBranches(query), p.found))
                /\ IF p.found
                     THEN RunCorrected("branch", p,
                                       <<cur.command, cur.args[1], cur.args[2]>>,
                                       <<cur.command, cur.args[1], p.args[2]>>)
                     ELSE /\ pc' = "fallback"
                          /\ UNCHANGED <<runs, stdout, stderr, exitCode>>
       ELSE /\ consulted' = Append(consulted, Consult("branch", FALSE, <<>>, FALSE))
            /\ pc' = "fallback"
            /\ UNCHANGED <<runs, stdout, stderr, exitCode>>
  /\ UNCHANGED <<outside, env, argv, files, baseCommand, rest, firstRun, cur>>

\* variant: the failure is reported with exit code 1 whatever the child returned
Fallback_exitsOne ==
  /\ pc = "fallback"
  /\ Exit(cur.result.stdout, cur.result.stderr, 1)
  /\ UNCHANGED <<outside, env, argv, files, baseCommand, rest, firstRun, cur, runs, consulted>>

\* no strategy corrected: the result the strategies worked on is written
Fallback ==
  /\ pc = "fallback"
  /\ Exit(cur.result.stdout, cur.result.stderr, cur.result.code)
  /\ UNCHANGED <<outside, env, argv, files, baseCommand, rest, firstRun, cur, runs, consulted>>

\* scripts/postinstall.js when writeState succeeds: the skip, else
\* installer.enable and the state that is recorded
postinstallWrites(r, foregroundScripts) ==
  /\ files' = r.files
  /\ stderr' = stderr \o <<Chunk(IF r.threw THEN "autoEnableFailed"
                                            ELSE "automaticallyEnabled", <<>>, 0)>>
  /\ stateFile' = IF r.threw THEN State(FALSE, FALSE, TRUE)
                             ELSE State(foregroundScripts, TRUE, FALSE)
  /\ exitCode' = 0

\* ... and when writeState throws: the catch block reports the failure, its
\* own writeState throws again and the exception ends the process
postinstallThrows(r) ==
  /\ files' = r.files
  /\ stderr' = stderr
                 \o (IF r.threw THEN <<>> ELSE <<Chunk("automaticallyEnabled", <<>>, 0)>>)
                 \o <<Chunk("autoEnableFailed", <<>>, 0),
                      Chunk("uncaughtException", <<>>, 0)>>
  /\ stateFile' = stateFile
  /\ exitCode' = 1

\* variant: the script does not look at FUZZRUN_SKIP_ENABLE
Postinstall_noSkip ==
  /\ pc = "postinstall"
  /\ \E failAt \in 0..Len(pickTargets(env.platform, files)) :
       \E r \in {enable(env.platform, files, failAt)} :
         \/ \E foregroundScripts \in BOOLEAN : postinstallWrites(r, foregroundScripts)
         \/ postinstallThrows(r)
  /\ pc' = "done"
  /\ UNCHANGED <<env, argv, baseCommand, rest, firstRun, cur, runs, consulted, stdout,
                 history, call, ret>>

\* scripts/postinstall.js, the whole script
Postinstall ==
  /\ pc = "postinstall"
  /\ IF env.SKIP_ENABLE
       THEN /\ stderr' = stderr \o <<Chunk("autoEnableSkipped", <<>>, 0)>>
            /\ exitCode' = 0
            /\ UNCHANGED <<files, stateFile>>
       ELSE \E failAt \in 0..Len(pickTargets(env.platform, files)) :
              \E r \in {enable(env.platform, files, failAt)} :
                \/ \E foregroundScripts \in BOOLEAN : postinstallWrites(r, foregroundScripts)
                \/ postinstallThrows(r)
  /\ pc' = "done"
  /\ UNCHANGED <<env, argv, baseCommand, rest, firstRun, cur, runs, consulted, stdout,
                 history, call, ret>>

\* what the tool is run with after a hook-management process
LaterArgvs ==
  { << <<"g", "i", "t">> >>, << <<"e", "n", "a", "b", "l", "e">> >>,
    << <<"d", "i", "s", "a", "b", "l", "e">> >> }

\* after a process that enabled, disabled or listed the hooks has ended, the
\* tool is started again: a new process with the same environment and the
\* profiles as they were left
NextProcess ==
  /\ pc = "done"
  /\ argv # <<>>
  /\ isAction(argv[1])
  /\ Len(history) + 1 < MaxProcesses
  /\ history' = Append(history, argv[1])
  /\ argv' \in LaterArgvs
  /\ pc' = "start"
  /\ baseCommand' = <<>>
  /\ rest' = <<>>
  /\ firstRun' = NoResult
  /\ cur' = NoCur
  /\ runs' = <<>>
  /\ consulted' = <<>>
  /\ stdout' = <<>>
  /\ stderr' = <<>>
  /\ exitCode' = NoExit
  /\ UNCHANGED <<env, files, stateFile, call, ret>>

Next ==
  \/ Usage
  \/ Enable
  \/ Disable
  \/ Status
  \/ AutoEnable
  \/ RunOriginal
  \/ Success
  \/ BaseCorrection
  \/ TrySubcommand
  \/ TryScript
  \/ TryGitBranch
  \/ Fallback
  \/ Postinstall
  \/ NextProcess

Spec == Init /\ [][Next]_vars

(* ------------------ the pure functions on their own ------------------- *)

\* the characters of the tokens the matcher is applied to
Alphabet == {"a", "b", "A"}

Tokens == UNION { [1..n -> Alphabet] : n \in 0..MaxTokenLen }

Bounds == {1, 2}

\* candidate names: two that are one transposition apart, one that differs
\* from the first in case only, and a longer one
PoolNames == { <<"a", "b">>, <<"b", "a">>, <<"A", "b">>, <<"a", "b", "b">> }

Pools == UNION { [1..n -> PoolNames] : n \in 0..MaxPool }

Targets == { <<>>, <<"a">>, <<"a", "b">>, <<"b", "b">>, <<"a", "b", "a", "b">> }

\* FUZZRUN_PREFER_BASES
PreferBases == { {}, { <<"a", "b">> }, { <<"a", "b">>, <<"b", "a">> } }

\* the pieces of a profile a hook is written to: the two markers, a newline,
\* the user's own text and a hook line
Pieces == {MARKER_START, MARKER_END, "NL", "U", "B"}

\* a profile that does not exist, and every content up to the bound
ProfileFiles ==
  {Absent} \cup { File(c) : c \in UNION { [1..n -> Pieces] : n \in 0..MaxContent } }

distanceCall(a, b, maxDistance) ==
  [NoCall EXCEPT !.op = "damerauLevenshtein", !.a = a, !.b = b,
                 !.maxDistance = maxDistance]

matchCall(candidates, target, maxDistance) ==
  [NoCall EXCEPT !.op = "findBestMatch", !.candidates = candidates, !.target = target,
                 !.maxDistance = maxDistance]

searchCall(dir, manifests) ==
  [NoCall EXCEPT !.op = "findPackageJson", !.dir = dir, !.manifests = manifests]

profileCall(file) == [NoCall EXCEPT !.op = "updateProfile", !.file = file]

Calls ==
  { distanceCall(a, b, n) : a \in Tokens, b \in Tokens, n \in Bounds }
  \cup { matchCall(c, t, n) : c \in Pools, t \in Targets, n \in Bounds }
  \cup { searchCall(d, m) : d \in Dirs, m \in SUBSET Dirs }
  \cup { profileCall(f) : f \in ProfileFiles }

MatcherEnvs ==
  [ PATH_COMMANDS         : { <<>> },
    MAX_DISTANCE          : {1},
    ENV_PRIORITY_BASES    : PreferBases,
    ALLOW_ANY_SUBCOMMANDS : {FALSE},
    SKIP_ENABLE           : {TRUE},
    platform              : {"linux"} ]

MatcherInit ==
  /\ env \in MatcherEnvs
  /\ call \in Calls
  /\ call.op # "findBestMatch" => env.ENV_PRIORITY_BASES = {}
  /\ ret = NoRet
  /\ argv = <<>>
  /\ files = [t \in {1, 2} |-> Absent]
  /\ pc = "library"
  /\ baseCommand = <<>>
  /\ rest = <<>>
  /\ firstRun = NoResult
  /\ cur = NoCur
  /\ runs = <<>>
  /\ consulted = <<>>
  /\ stdout = <<>>
  /\ stderr = <<>>
  /\ exitCode = NoExit
  /\ stateFile = NoState
  /\ history = <<>>

Return(value) ==
  /\ ret' = [done |-> TRUE, value |-> value]
  /\ UNCHANGED <<env, argv, files, pc, baseCommand, rest, firstRun, cur, runs, consulted,
                 stdout, stderr, exitCode, stateFile, history, call>>

CallDamerauLevenshtein ==
  /\ call.op = "damerauLevenshtein"
  /\ ~ret.done
  /\ Return(damerauLevenshtein(call.a, call.b, call.maxDistance))

CallFindBestMatch ==
  /\ call.op = "findBestMatch"
  /\ ~ret.done
  /\ Return(findBestMatch(call.candidates, call.target, call.maxDistance))

CallFindPackageJson ==
  /\ call.op = "findPackageJson"
  /\ ~ret.done
  /\ Return(findPackageJson(call.dir, call.manifests))

\* updateProfile with the snippet of the platform
CallUpdateProfile ==
  /\ call.op = "updateProfile"
  /\ ~ret.done
  /\ Return(updateProfile(call.file, IF env.platform = "win32" THEN buildPowerShellSnippet
                                     ELSE buildUnixSnippet))

\* removeProfileSnippet on the profile updateProfile has written; before is
\* the profile as it was before updateProfile
CallRemoveProfileSnippet ==
  /\ call.op = "updateProfile"
  /\ ret.done
  /\ call' = [NoCall EXCEPT !.op = "removeProfileSnippet", !.file = ret.value.file,
                            !.before = call.file]
  /\ ret' = [done |-> TRUE, value |-> removeProfileSnippet(ret.value.file)]
  /\ UNCHANGED <<env, argv, files, pc, baseCommand, rest, firstRun, cur, runs, consulted,
                 stdout, stderr, exitCode, stateFile, history>>

MatcherNext ==
  \/ CallDamerauLevenshtein
  \/ CallFindBestMatch
  \/ CallFindPackageJson
  \/ CallUpdateProfile
  \/ CallRemoveProfileSnippet

MatcherSpec == MatcherInit /\ [][MatcherNext]_vars

(* ------------------------------- claims ------------------------------- *)

\* the chunks of a stream that a child process wrote
ChildPart(stream) == SelectSeq(stream, LAMBDA c : c.run # 0)

LogFixes(stream) == SelectSeq(stream, LAMBDA c : c.kind = "logFix")

LastRun == runs[Len(runs)]

Chained == {"subcommand", "script", "branch"}

RanCommand == pc = "done" /\ runs # <<>>

NothingFound == \A i \in DOMAIN consulted : ~consulted[i].found

\* C1: a run executes at most three invocations: the original; a
\* base-corrected one only as the second and only after a not-found spawn
\* error of the original; a chained subcommand/script/branch correction as
\* the third only after a base-corrected invocation that exited nonzero.
\* When the original did not fail with a not-found spawn error there are at
\* most two invocations.
C1_AtMostThreeRuns ==
  /\ Len(runs) <= 3
  /\ \A k \in DOMAIN runs :
       /\ (runs[k].by = "original") <=> (k = 1)
       /\ runs[k].by = "base" => k = 2 /\ runs[1].result.error = "ENOENT"
       /\ (k = 3) => /\ runs[3].by \in Chained
                     /\ runs[2].by = "base"
                     /\ runs[2].result.code # 0
  /\ (runs # <<>> /\ runs[1].result.error # "ENOENT") => Len(runs) <= 2

C1_Witness ==
  /\ pc = "done"
  /\ Len(runs) = 3
  /\ runs[1].result.error = "ENOENT"
  /\ runs[2].by = "base"
  /\ runs[3].by = "subcommand"

\* C2: at most one corrected invocation is executed per run, whatever the
\* kind of the original failure (the original plus a single retry).
C2_SingleRetry == Len(runs) <= 2

\* C3: when an argument is a risky flag no strategy executes a correction:
\* exactly one invocation is executed and the tool reports its result, or its
\* spawn error.
C3_RiskyArgsNoCorrection ==
  (argv # <<>> /\ ~isAction(argv[1]) /\ hasRiskyArgs(Tail(argv))) =>
    /\ Len(runs) <= 1
    /\ NothingFound
    /\ pc = "done" =>
         /\ Len(runs) = 1
         /\ exitCode = runs[1].result.code
         /\ ChildPart(stdout) = runs[1].result.stdout
         /\ ChildPart(stderr) = runs[1].result.stderr
         /\ LogFixes(stderr) = <<>>
         /\ runs[1].result.error = "ENOENT" =>
              Chunk("spawnSyncError", runs[1].cmd, 0) \in Range(stderr)

C3_Witness ==
  /\ pc = "done"
  /\ hasRiskyArgs(rest)
  /\ baseCommand = <<"g", "i", "t">>
  /\ rest[1] = <<"c", "o", "m", "i", "t">>
  /\ runs[1].result.code # 0
  /\ Len(consulted) = 3

\* the best PATH match of the base that could not be found is a denylisted name
BestMatchDenylisted ==
  LET m == findBestMatch(PATH_COMMANDS, baseCommand, MAX_DISTANCE)
  IN  m.found /\ m.match \in DANGEROUS_BASE

\* C4: base-command correction never executes a denylisted name; when the
\* best PATH match of a not-found base is denylisted the run ends after the
\* original invocation with the spawn error on stderr and exit code 1.
C4_DenylistedBaseNeverRun ==
  /\ \A k \in DOMAIN runs : runs[k].by = "base" => runs[k].cmd \notin DANGEROUS_BASE
  /\ (RanCommand /\ runs[1].result.error = "ENOENT" /\ BestMatchDenylisted) =>
       /\ Len(runs) = 1
       /\ exitCode = 1
       /\ stderr # <<>>
       /\ stderr[Len(stderr)] = Chunk("spawnSyncError", baseCommand, 0)

C4_Witness ==
  /\ pc = "done"
  /\ baseCommand = <<"r", "n">>
  /\ ~hasRiskyArgs(rest)
  /\ BestMatchDenylisted
  /\ Len(consulted) = 1

\* C5: every invocation the tool executes, the alias normalization counted,
\* has a base that is the user's argv[0] or is not in the denylist.
C5_NoDenylistedBaseEver ==
  \A k \in DOMAIN runs : runs[k].cmd = argv[1] \/ runs[k].cmd \notin DANGEROUS_BASE

\* C6: when the first execution exits with code 0 no strategy is consulted
\* and nothing else is executed; the tool writes that execution's output and
\* exits 0, and with FUZZRUN_SKIP_ENABLE=1 its streams are exactly the
\* command's, with no banner.
C6_SuccessEndsPipeline ==
  (runs # <<>> /\ runs[1].result.code = 0) =>
    /\ Len(runs) = 1
    /\ consulted = <<>>
    /\ pc = "done" =>
         /\ exitCode = 0
         /\ ChildPart(stdout) = runs[1].result.stdout
         /\ ChildPart(stderr) = runs[1].result.stderr
         /\ env.SKIP_ENABLE => /\ stdout = runs[1].result.stdout
                               /\ stderr = runs[1].result.stderr

C6_Witness ==
  /\ pc = "done"
  /\ env.SKIP_ENABLE
  /\ runs # <<>>
  /\ runs[1].result.code = 0
  /\ stdout # <<>>

\* C7: when the first execution exits nonzero with the command present and
\* no strategy yields a correction, one invocation has been executed and the
\* tool writes the original stdout and stderr and exits with the original code.
C7_UncorrectedFailureUnchanged ==
  (/\ RanCommand
   /\ runs[1].result.error # "ENOENT"
   /\ runs[1].result.code # 0
   /\ NothingFound) =>
    /\ Len(runs) = 1
    /\ exitCode = runs[1].result.code
    /\ ChildPart(stdout) = runs[1].result.stdout
    /\ ChildPart(stderr) = runs[1].result.stderr
    /\ LogFixes(stderr) = <<>>

C7_Witness ==
  /\ pc = "done"
  /\ Len(runs) = 1
  /\ runs[1].result.status = 2
  /\ Len(consulted) = 3
  /\ NothingFound
  /\ exitCode = 2

\* C8: when the base does not exist and no base correction applies, the tool
\* exits nonzero, its stderr has the line "fuzzrun: command not found: <base>"
\* and has no raw spawn error text.
C8_FriendlyNotFound ==
  (RanCommand /\ runs[1].result.error = "ENOENT" /\ Len(runs) = 1) =>
    /\ exitCode # 0
    /\ Chunk("commandNotFound", baseCommand, 0) \in Range(stderr)
    /\ \A i \in DOMAIN stderr : stderr[i].kind # "spawnSyncError"

\* C9: the exit code of the tool is the exit code of the last invocation it
\* executed.
C9_ExitCodeOfLastRun == RanCommand => exitCode = LastRun.result.code

C9_Witness ==
  /\ pc = "done"
  /\ Len(runs) = 3
  /\ runs[3].result.code # runs[2].result.code
  /\ runs[3].result.code # runs[1].result.code

\* C10 as stated: the tool's stdout and stderr are exactly the captured
\* stdout and stderr of the final execution, with nothing added.
C10_OnlyFinalOutput ==
  RanCommand => stdout = LastRun.result.stdout /\ stderr = LastRun.result.stderr

\* C10 amended: of the children's output only the final execution's is
\* written; the tool adds its own lines: on stdout the auto-enable banner
\* first, on stderr the auto-enable failure line, then one auto-correcting
\* line per corrected invocation, then the final execution's stderr - or, when
\* the original was not found and nothing was corrected, the spawn error.
C10_FinalOutputAndToolLines ==
  RanCommand =>
    LET notFound == Len(runs) = 1 /\ runs[1].result.error = "ENOENT"
        ending   == IF notFound THEN <<Chunk("spawnSyncError", baseCommand, 0)>>
                    ELSE LastRun.result.stderr
    IN  /\ \E banner \in { <<>>, <<Chunk("autoEnabled", <<>>, 0)>> } :
             /\ stdout = banner \o LastRun.result.stdout
             /\ env.SKIP_ENABLE => banner = <<>>
        /\ \E failed \in { <<>>, <<Chunk("autoEnableFailed", <<>>, 0)>> } :
             /\ stderr = failed \o LogFixes(stderr) \o ending
             /\ env.SKIP_ENABLE => failed = <<>>
        /\ Len(LogFixes(stderr)) = Len(runs) - 1

C10_Witness ==
  /\ pc = "done"
  /\ Len(runs) = 3
  /\ runs[2].result.stdout # <<>>
  /\ runs[2].result.stderr # <<>>
  /\ stdout # <<>>
  /\ stdout[1].kind = "autoEnabled"

\* the invocation of an entry of runs
Invocation(r) == <<r.cmd>> \o r.args

\* C11: every corrected invocation the tool executes differs from the
\* invocation it replaces (the one executed just before it): the tool never
\* executes again an invocation identical to the one that just failed.
C11_CorrectionDiffers ==
  \A k \in 2..Len(runs) : Invocation(runs[k]) # Invocation(runs[k - 1])

Matched == call.op = "findBestMatch" /\ ret.done

Measured == call.op = "damerauLevenshtein" /\ ret.done

\* the least element of a nonempty set of numbers
Least(S) == CHOOSE x \in S : \A y \in S : x <= y

\* C13: findBestMatch(pool, target, maxDistance) returns absent when the
\* least distance over the pool exceeds maxDistance (or the pool is empty);
\* returns the candidate when exactly one entry of the pool attains the least
\* distance; and when several entries tie returns the tied one that is in the
\* priority set if exactly one tied entry is in it, and absent otherwise.
C13_BestMatchOrAbsent ==
  Matched =>
    LET pool == call.candidates
        d    == [k \in DOMAIN pool |->
                   damerauLevenshtein(pool[k], call.target, call.maxDistance)]
        low  == Least({ d[k] : k \in DOMAIN pool } \cup {call.maxDistance + 1})
        tied == { k \in DOMAIN pool : d[k] = low }
        prio == { k \in tied : normalizeToken(pool[k]) \in PRIORITY_BASES }
    IN  IF low > call.maxDistance THEN ~ret.value.found
        ELSE IF Cardinality(tied) = 1
          THEN ret.value.found /\ \A k \in tied : ret.value.match = pool[k]
        ELSE IF Cardinality(prio) = 1
          THEN ret.value.found /\ \A k \in prio : ret.value.match = pool[k]
        ELSE ~ret.value.found

\* two candidates tie at distance 1 and the second one, the only priority
\* name, is returned
C13_Witness ==
  /\ Matched
  /\ call.candidates = << <<"b", "a">>, <<"a", "b">> >>
  /\ call.target = <<"b", "b">>
  /\ env.ENV_PRIORITY_BASES = { <<"a", "b">> }
  /\ ret.value.found
  /\ ret.value.match = <<"a", "b">>

\* a and b are the same token but for the case of their letters
SameIgnoringCase(a, b) ==
  /\ Len(a) = Len(b)
  /\ \A i \in DOMAIN a : toLowerCase(a[i]) = toLowerCase(b[i])

\* the edit distance of a[1..i] and b[1..j] with insertions, deletions,
\* substitutions and transpositions of adjacent characters, case ignored
RECURSIVE editDistance(_, _, _, _)
editDistance(a, b, i, j) ==
  IF i = 0 THEN j
  ELSE IF j = 0 THEN i
  ELSE Least(
    { editDistance(a, b, i - 1, j) + 1,
      editDistance(a, b, i, j - 1) + 1,
      editDistance(a, b, i - 1, j - 1)
        + (IF toLowerCase(a[i]) = toLowerCase(b[j]) THEN 0 ELSE 1) }
    \cup
    (IF /\ i > 1
        /\ j > 1
        /\ toLowerCase(a[i]) = toLowerCase(b[j - 1])
        /\ toLowerCase(a[i - 1]) = toLowerCase(b[j])
       THEN { editDistance(a, b, i - 2, j - 2) + 1 }
       ELSE {}))

\* C14: damerauLevenshtein(a, b, N) is the edit distance of a and b, case
\* ignored, whenever that distance is at most N, and is greater than N
\* whenever it is not.
C14_ExactWithinBound ==
  Measured =>
    LET d == editDistance(call.a, call.b, Len(call.a), Len(call.b))
    IN  IF d <= call.maxDistance THEN ret.value = d ELSE ret.value > call.maxDistance

\* C15: damerauLevenshtein(a, b, N) = damerauLevenshtein(b, a, N) for every
\* pair of tokens and every bound.
C15_Symmetric ==
  Measured => ret.value = damerauLevenshtein(call.b, call.a, call.maxDistance)

\* C16: damerauLevenshtein(a, b, N) is 0 exactly when a and b are the same
\* token but for the case of their letters.
C16_ZeroIffSameIgnoringCase ==
  Measured => (ret.value = 0 <=> SameIgnoringCase(call.a, call.b))

C16_Witness ==
  /\ Measured
  /\ call.a = <<"A", "b">>
  /\ call.b = <<"a", "b">>
  /\ ret.value = 0

\* the tool has ended after an original invocation that was started and failed
OriginalFailed ==
  /\ RanCommand
  /\ runs[1].result.error = "none"
  /\ runs[1].result.code # 0

\* the names of a pool within the distance bound of a token
Near(pool, tok) ==
  { s \in Range(pool) : damerauLevenshtein(s, tok, MAX_DISTANCE) <= MAX_DISTANCE }

\* the tool's exit code and the children's output it wrote are those of its
\* k-th execution
ReturnsRun(k) ==
  /\ exitCode = runs[k].result.code
  /\ ChildPart(stdout) = runs[k].result.stdout
  /\ ChildPart(stderr) = runs[k].result.stderr

\* a script runner was run as "run <name> ...", failed with a
\* script-not-found message, and no argument is risky
ScriptNotFound ==
  /\ OriginalFailed
  /\ runs[1].cmd \in SCRIPT_BASES
  /\ Len(runs[1].args) >= 2
  /\ runs[1].args[1] = <<"r", "u", "n">>
  /\ ~startsWith(runs[1].args[2], <<"-">>)
  /\ isScriptError(combined(runs[1].result))
  /\ ~hasRiskyArgs(runs[1].args)

\* C17: when a script runner run as "run <name> ..." fails with a
\* script-not-found message and no argument is risky, the tool looks the
\* manifest's script names up, and when exactly one of them is within the
\* distance bound of <name> it executes "<base> run <that name>" followed by
\* the remaining args, once, and returns that execution's result.  (Only the
\* script strategy reads the manifest, so whatever the manifest holds the tool
\* has to get as far as reading it.)
C17_ScriptCorrected ==
  ScriptNotFound =>
    \E i \in DOMAIN consulted :
      /\ consulted[i].strategy = "script"
      /\ consulted[i].fetched
      /\ \A s \in Near(consulted[i].pool, runs[1].args[2]) :
           Near(consulted[i].pool, runs[1].args[2]) = {s} =>
             /\ Len(runs) = 2
             /\ runs[2].cmd = runs[1].cmd
             /\ runs[2].args = <<runs[1].args[1], s>> \o slice(runs[1].args, 2)
             /\ ReturnsRun(2)

\* a command with a subcommand dictionary failed, its first argument is not a
\* flag and no argument is risky
KnownBaseFailed ==
  /\ OriginalFailed
  /\ runs[1].cmd \in SAFE_SUBCOMMAND_BASES
  /\ Len(runs[1].args) >= 1
  /\ ~startsWith(runs[1].args[1], <<"-">>)
  /\ ~hasRiskyArgs(runs[1].args)

\* C18: whenever a known-base command fails and its output contains a
\* suggestion X different from the attempted subcommand, the tool re-runs the
\* command with X in place of the subcommand, also when X is more than the
\* distance bound away from it.
C18_SuggestionAlwaysTaken ==
  (KnownBaseFailed /\ parseSuggestion(combined(runs[1].result)).found) =>
    LET X == parseSuggestion(combined(runs[1].result)).tok
    IN  X # runs[1].args[1] =>
          /\ Len(runs) = 2
          /\ runs[2].cmd = runs[1].cmd
          /\ runs[2].args = <<X>> \o slice(runs[1].args, 1)

C20_DictionaryCorrection ==
  (/\ KnownBaseFailed
   /\ LET fromOutput == parseSuggestion(combined(runs[1].result))
      IN  ~(/\ fromOutput.found
            /\ damerauLevenshtein(fromOutput.tok, runs[1].args[1], MAX_DISTANCE)
                 <= MAX_DISTANCE)) =>
    \A s \in Near(COMMON_SUBCOMMANDS[runs[1].cmd], runs[1].args[1]) :
      (/\ Near(COMMON_SUBCOMMANDS[runs[1].cmd], runs[1].args[1]) = {s}
       /\ s # runs[1].args[1]) =>
        /\ Len(runs) = 2
        /\ runs[2].by = "subcommand"
        /\ runs[2].cmd = runs[1].cmd
        /\ runs[2].args = <<s>> \o slice(runs[1].args, 1)

\* C21: the tool exits 0 only if the last invocation it executed ended with
\* exit status 0: a child that could not be started, or that ended without an
\* exit status because a signal ended it, never makes the tool exit 0.
C21_ZeroOnlyAfterStatusZero ==
  (RanCommand /\ exitCode = 0) => LastRun.result.status = 0

\* the first argument words main handles itself instead of executing them
ManagementWords ==
  { <<"e", "n", "a", "b", "l", "e">>, <<"d", "i", "s", "a", "b", "l", "e">>,
    <<"s", "t", "a", "t", "u", "s">> }

\* an execution of the user's own invocation: argv[1..] verbatim after
\* argv[0], or after argv[0] without its "Get-" prefix
UsersOwn(r) ==
  /\ r.args = Tail(argv)
  /\ \/ r.cmd = argv[1]
     \/ /\ startsWith([i \in DOMAIN argv[1] |-> toLowerCase(argv[1][i])],
                      <<"g", "e", "t", "-">>)
        /\ r.cmd = slice(argv[1], 4)

\* the first execution is the user's own, there is one such execution, and no
\* strategy is consulted before it
OriginalFirstAndOnce ==
  /\ runs = <<>> => consulted = <<>>
  /\ \A k \in DOMAIN runs :
       /\ (runs[k].by = "original") <=> (k = 1)
       /\ k = 1 => UsersOwn(runs[k])

C23_AliasOnlyOnWindows ==
  (env.platform # "win32" /\ runs # <<>>) => runs[1].cmd = argv[1]

\* findPackageJson has returned
Searched == call.op = "findPackageJson" /\ ret.done

\* the directories among dir and its ancestors, the root included, that hold
\* a manifest
Holding(dir, manifests) == { k \in 0..dir : k \in manifests }

\* C24: the manifest search from a directory returns the package.json of the
\* nearest directory among that directory and all its ancestors up to and
\* including the filesystem root, and returns none only when none of them
\* holds one.
C24_NearestManifest ==
  Searched =>
    IF Holding(call.dir, call.manifests) = {}
      THEN ret.value = NoPath
      ELSE /\ ret.value \in Holding(call.dir, call.manifests)
           /\ \A k \in Holding(call.dir, call.manifests) : k <= ret.value

\* the place of a strategy in main's order
Rank(strategy) ==
  CASE strategy = "base" -> 1
    [] strategy = "subcommand" -> 2
    [] strategy = "script" -> 3
    [] strategy = "branch" -> 4

\* C25: the strategies are consulted in a fixed order: the base-command
\* correction only when the first execution failed with a not-found spawn
\* error and before the others, then subcommand, then script name, then
\* branch name.  A later strategy is consulted (and its pool fetched) only
\* after every earlier one returned no correction, and once a strategy has
\* executed a correction no further strategy is consulted.
C25_FixedOrder ==
  \A i \in DOMAIN consulted :
    /\ consulted[i].strategy = "base" => i = 1 /\ runs[1].result.error = "ENOENT"
    /\ i = 1 => (consulted[i].strategy = "base") <=> (runs[1].result.error = "ENOENT")
    /\ i = 1 => consulted[i].strategy \in {"base", "subcommand"}
    /\ i > 1 => Rank(consulted[i].strategy) = Rank(consulted[i - 1].strategy) + 1
    /\ \A j \in 1..(i - 1) : ~consulted[j].found

\* the subcommand strategy was consulted on the k-th execution, which failed
\* with a known base, a first argument that is not a flag and no risky
\* argument
SubcommandTriedOn(k) ==
  /\ pc = "done"
  /\ k \in DOMAIN runs
  /\ k = IF runs[1].result.error = "ENOENT" THEN 2 ELSE 1
  /\ runs[k].by \in {"original", "base"}
  /\ runs[k].result.code # 0
  /\ runs[k].cmd \in SAFE_SUBCOMMAND_BASES
  /\ Len(runs[k].args) >= 1
  /\ ~startsWith(runs[k].args[1], <<"-">>)
  /\ ~hasRiskyArgs(runs[k].args)

\* the k-th execution was corrected by the subcommand strategy to tok
SubcommandCorrectedTo(k, tok) ==
  /\ Len(runs) = k + 1
  /\ runs[k + 1].by = "subcommand"
  /\ runs[k + 1].cmd = runs[k].cmd
  /\ runs[k + 1].args = <<tok>> \o slice(runs[k].args, 1)

NoSubcommandCorrection == \A k \in DOMAIN runs : runs[k].by # "subcommand"

DisabledAndNotEnabledSince ==
  /\ argv # <<>>
  /\ argv[1] # <<"e", "n", "a", "b", "l", "e">>
  /\ \E i \in DOMAIN history :
       /\ history[i] = <<"d", "i", "s", "a", "b", "l", "e">>
       /\ \A j \in (i + 1)..Len(history) : history[j] # <<"e", "n", "a", "b", "l", "e">>

\* C27: after `fuzzrun disable` no profile contains the hook block (status
\* reports every profile disabled) until `fuzzrun enable` is invoked
\* explicitly: running ordinary commands through the tool afterwards does not
\* add the hooks again.
C27_DisabledUntilEnable ==
  DisabledAndNotEnabledSince => \A t \in DOMAIN files : ~status(files)[t]

\* no strategy consulted after the i-th returned a correction
NothingFoundAfter(i) == \A j \in (i + 1)..Len(consulted) : ~consulted[j].found

\* a strategy fetched its pool and the source failed: no manifest, a manifest
\* that cannot be read or parsed, a branch query that exited nonzero or did
\* not start
FailedFetch(i) ==
  /\ i \in DOMAIN consulted
  /\ consulted[i].fetched
  /\ consulted[i].source # "ok"

\* C28: a failure of a dynamic candidate source (no manifest, an unreadable
\* or invalid manifest, a branch query that exits nonzero or fails to start)
\* yields an empty pool: the strategy returns no correction, nothing is
\* thrown, and the pipeline goes on to the next strategy and to the report
\* of the failing execution.
C28_FailedSourceIsEmptyPool ==
  \A i \in DOMAIN consulted :
    FailedFetch(i) =>
      /\ consulted[i].pool = <<>>
      /\ ~consulted[i].found
      /\ \A c \in Range(stderr) : c.kind # "uncaughtException"
      /\ pc = "done" =>
           /\ consulted[i].strategy = "script" =>
                /\ i < Len(consulted)
                /\ consulted[i + 1].strategy = "branch"
           /\ NothingFoundAfter(i) => ReturnsRun(Len(runs))

\* `git checkout mian` fails with a pathspec error, the branch query fails
\* and the failure of the checkout is reported
C28_Witness ==
  /\ pc = "done"
  /\ Len(runs) = 1
  /\ consulted # <<>>
  /\ consulted[Len(consulted)].strategy = "branch"
  /\ FailedFetch(Len(consulted))
  /\ consulted[Len(consulted)].source = "notStarted"
  /\ exitCode = runs[1].result.code

\* C29: findBestMatch returns absent whenever the length of every member of
\* the pool differs from the target's by more than maxDistance; any result
\* it does return names a member of the pool and carries a distance that is
\* at most maxDistance and is that member's distance to the target.
C29_ResultWithinBound ==
  Matched =>
    /\ (\A k \in DOMAIN call.candidates :
          Abs(Len(call.candidates[k]) - Len(call.target)) > call.maxDistance)
         => ~ret.value.found
    /\ ret.value.found =>
         /\ ret.value.match \in Range(call.candidates)
         /\ ret.value.distance <= call.maxDistance
         /\ ret.value.distance =
              editDistance(ret.value.match, call.target, Len(ret.value.match),
                           Len(call.target))

\* the only candidate is two edits away from the target and is returned with
\* distance 2
C29_Witness ==
  /\ Matched
  /\ call.candidates = << <<"a", "b", "b">> >>
  /\ call.target = <<"a">>
  /\ call.maxDistance = 2
  /\ ret.value.found
  /\ ret.value.distance = 2

\* updateProfile has returned
ProfileUpdated == call.op = "updateProfile" /\ ret.done

\* the number of marked blocks of a content: the matches of BLOCK_REGEX
RECURSIVE CountBlocks(_)
CountBlocks(content) ==
  LET i == indexFrom(content, MARKER_START, 1)
      j == IF i = 0 THEN 0 ELSE indexFrom(content, MARKER_END, i + 1)
  IN  IF i = 0 \/ j = 0 THEN 0
      ELSE 1 + CountBlocks(SubSeq(content, j + 1, Len(content)))

\* C30: enable is idempotent on a profile: applied a second time to the
\* content it produced it leaves the content identical and reports
\* updated = false, and the profile contains exactly one marked hook block,
\* whatever the content was before the first enable.
C30_EnableIdempotent ==
  ProfileUpdated =>
    LET again == updateProfile(ret.value.file, buildUnixSnippet)
    IN  /\ again.file = ret.value.file
        /\ ~again.updated
        /\ CountBlocks(ret.value.file.content) = 1

\* removeProfileSnippet has returned for a profile that updateProfile wrote
HookRemoved == call.op = "removeProfileSnippet" /\ ret.done

\* the pieces of a content that are in no marked block (a start marker, the
\* shortest text up to an end marker)
RECURSIVE OutsideBlocks(_)
OutsideBlocks(content) ==
  LET i == indexFrom(content, MARKER_START, 1)
      j == IF i = 0 THEN 0 ELSE indexFrom(content, MARKER_END, i + 1)
  IN  IF i = 0 \/ j = 0 THEN content
      ELSE SubSeq(content, 1, i - 1)
             \o OutsideBlocks(SubSeq(content, j + 1, Len(content)))

\* the lines of text of a content, in order: neither whitespace nor a marker
TextLines(content) == SelectSeq(content, LAMBDA p : p \in {"U", "B"})

\* C31: for a profile with any initial content, enable followed by disable
\* removes the whole marked block and keeps every other line of the original
\* content in its original order (only whitespace may change), and status
\* afterwards reports the profile as disabled.
C31_EnableDisableKeepsText ==
  HookRemoved =>
    /\ CountBlocks(ret.value.file.content) = 0
    /\ TextLines(ret.value.file.content) = TextLines(OutsideBlocks(call.before.content))
    /\ ~status(<<ret.value.file>>)[1]

====
